---- MODULE Spec2Model ----
(***************************************************************************)
(* Model of namegenPack: the morphological category tables with their      *)
(* lntrf conversion (morpho/MorphCategories.py) and the name filters       *)
(* (Filters.py).                                                           *)
(*                                                                         *)
(* Python values are modelled as follows.  A string is a TLA+ string.  The *)
(* outcome of a call is a record [kind, val, exc]: kind = "return" with    *)
(* the returned value in val, or kind = "raise" with the class name of the *)
(* exception in exc.  An enum member is named by its class and its name.   *)
(***************************************************************************)
EXTENDS Integers, Sequences, FiniteSets, TLC

VARIABLES cat, catPrev, gfName, gfResult, nf, nfCall, af, afCall

vars == <<cat, catPrev, gfName, gfResult, nf, nfCall, af, afCall>>

catVars == <<cat, catPrev>>
gfVars == <<gfName, gfResult>>
nfVars == <<nf, nfCall>>
afVars == <<af, afCall>>

(***************************************************************************)
(* Outcomes of calls.                                                      *)
(***************************************************************************)
Ret(v) == [kind |-> "return", val |-> v, exc |-> "-"]

Raise(e) == [kind |-> "raise", val |-> "-", exc |-> e]

RetB(b) == [kind |-> "return", val |-> b, exc |-> "-"]

RaiseB(e) == [kind |-> "raise", val |-> FALSE, exc |-> e]

(***************************************************************************)
(* morpho/MorphCategories.py                                               *)
(***************************************************************************)

\* Python's str() of an enum value: an int prints in decimal, a str is itself.
IntV(i) == [i |-> i, t |-> "int", s |-> ""]

StrV(s) == [i |-> 0, t |-> "str", s |-> s]

Digit(d) == <<"0", "1", "2", "3", "4", "5", "6", "7", "8", "9">>[d + 1]

RECURSIVE IntToStr(_)
IntToStr(n) == IF n < 10 THEN Digit(n) ELSE IntToStr(n \div 10) \o Digit(n % 10)

PyStr(v) == IF v.t = "int" THEN IntToStr(v.i) ELSE v.s

\* class MorphCategories(Enum): the seven kinds, in definition order.
MorphCategories ==
    <<"POS", "GENDER", "NUMBER", "CASE", "NEGATION", "DEGREE_OF_COMPARISON", "PERSON">>

Kinds == {MorphCategories[i] : i \in 1..Len(MorphCategories)}

MorphCategories_mappingLntrf_dup ==
    [k \in Kinds |->
        CASE k = "POS" -> "k"
          [] k = "GENDER" -> "g"
          [] k = "NUMBER" -> "n"
          [] k = "CASE" -> "c"
          [] k = "NEGATION" -> "n"
          [] k = "DEGREE_OF_COMPARISON" -> "d"
          [] k = "PERSON" -> "p"]

\* MorphCategories._mappingLntrf: the dict kind -> code.
MorphCategories_mappingLntrf ==
    [k \in Kinds |->
        CASE k = "POS" -> "k"
          [] k = "GENDER" -> "g"
          [] k = "NUMBER" -> "n"
          [] k = "CASE" -> "c"
          [] k = "NEGATION" -> "e"
          [] k = "DEGREE_OF_COMPARISON" -> "d"
          [] k = "PERSON" -> "p"]

\* MorphCategories.lntrf (property): self._mappingLntrf()[self].
MorphCategories_lntrf(k) == Ret(MorphCategories_mappingLntrf[k])

\* MorphCategories.fromLntrf: the reversed dict, built by iterating the items in
\* definition order (a later kind with the same code overwrites an earlier one);
\* KeyError becomes MorphCategoryInvalidException.
MorphCategories_fromLntrf(val) ==
    LET hits == {i \in 1..Len(MorphCategories) :
                    MorphCategories_mappingLntrf[MorphCategories[i]] = val}
    IN  IF hits = {}
        THEN Raise("MorphCategoryInvalidException")
        ELSE Ret(MorphCategories[CHOOSE i \in hits : \A j \in hits : j <= i])

\* The value enumerations (subclasses of MorphCategory), members in definition order.
Classes == {"POS", "Gender", "Number", "Case", "Negation", "DegreeOfComparison", "Person"}

M(n, v) == [name |-> n, value |-> v]

POS ==
    <<M("NOUN", IntV(1)), M("ADJECTIVE", IntV(2)), M("PRONOUN", IntV(3)),
      M("NUMERAL", IntV(4)), M("VERB", IntV(5)), M("ADVERB", IntV(6)),
      M("PREPOSITION", IntV(7)), M("CONJUNCTION", IntV(8)), M("PARTICLE", IntV(9)),
      M("INTERJECTION", IntV(10))>>

Gender ==
    <<M("MASCULINE_ANIMATE", StrV("M")), M("MASCULINE_INANIMATE", StrV("I")),
      M("NEUTER", StrV("N")), M("FEMINE", StrV("F")), M("FAMILY", StrV("R"))>>

Number ==
    <<M("SINGULAR", StrV("S")), M("PLURAL", StrV("P")), M("DUAL", StrV("D")),
      M("R", StrV("R"))>>

Case ==
    <<M("NOMINATIVE", IntV(1)), M("GENITIVE", IntV(2)), M("DATIVE", IntV(3)),
      M("ACCUSATIVE", IntV(4)), M("VOCATIVE", IntV(5)), M("LOCATIVE", IntV(6)),
      M("INSTRUMENTAL", IntV(7))>>

Negation == <<M("AFFIRMATIVE", StrV("A")), M("NEGATED", StrV("N"))>>

DegreeOfComparison ==
    <<M("POSITIVE", IntV(1)), M("COMPARATIVE", IntV(2)), M("SUPERLATIVE", IntV(3))>>

Person ==
    <<M("FIRST", IntV(1)), M("SECOND", IntV(2)), M("THIRD", IntV(3)), M("ANY", StrV("X"))>>

ClassBody(cls) ==
    CASE cls = "POS" -> POS
      [] cls = "Gender" -> Gender
      [] cls = "Number" -> Number
      [] cls = "Case" -> Case
      [] cls = "Negation" -> Negation
      [] cls = "DegreeOfComparison" -> DegreeOfComparison
      [] cls = "Person" -> Person

\* Iterating an Enum class yields its members in definition order; a name bound
\* to a value an earlier member already has is an alias and is not a member.
EnumIter(cls) ==
    LET body == ClassBody(cls)
    IN  SelectSeq([i \in 1..Len(body) |-> [idx |-> i, m |-> body[i]]],
                  LAMBDA e : \A j \in 1..(e.idx - 1) : body[j].value # e.m.value)

MemberNames(cls) == {EnumIter(cls)[i].m.name : i \in 1..Len(EnumIter(cls))}

MemberByName(cls, n) ==
    LET it == EnumIter(cls)
    IN  it[CHOOSE i \in 1..Len(it) : it[i].m.name = n].m

\* The _category() static method each subclass defines.
Subclass_category(cls) ==
    CASE cls = "POS" -> "POS"
      [] cls = "Gender" -> "GENDER"
      [] cls = "Number" -> "NUMBER"
      [] cls = "Case" -> "CASE"
      [] cls = "Negation" -> "NEGATION"
      [] cls = "DegreeOfComparison" -> "DEGREE_OF_COMPARISON"
      [] cls = "Person" -> "PERSON"

\* MorphCategory.category(): the base static method; no subclass overrides it
\* (they define _category instead), so every class resolves to this body.
MorphCategory_category(cls) == Raise("NotImplementedError")

PyStrFirstChar(v) == SubSeq(PyStr(v), 1, 1)

MorphCategory_mappingLntrf_firstChar(cls) ==
    [n \in MemberNames(cls) |-> PyStrFirstChar(MemberByName(cls, n).value)]

\* MorphCategory._mappingLntrf: {e: str(e.value) for e in cls}.
MorphCategory_mappingLntrf(cls) ==
    [n \in MemberNames(cls) |-> PyStr(MemberByName(cls, n).value)]

\* MorphCategory.lntrfValue: self._mappingLntrf()[self].
MorphCategory_lntrfValue(cls, n) == Ret(MorphCategory_mappingLntrf(cls)[n])

\* MorphCategory.lntrf: self.category().lntrf + self.lntrfValue.  category() is
\* evaluated first; were it to return a kind, the right operand is the bound
\* method lntrfValue (it is not called), and str + method is a TypeError.
MorphCategory_lntrf(cls, n) ==
    LET c == MorphCategory_category(cls)
    IN  IF c.kind = "raise" THEN c ELSE Raise("TypeError")

\* MorphCategory.fromLntrf: look val up in the reversed dict (built in iteration
\* order, a later member with the same code wins); on KeyError the handler
\* evaluates cls.category().lntrf to build MorphCategoryInvalidValueException,
\* and an exception raised by that evaluation is the one that propagates.
MorphCategory_fromLntrf(cls, val) ==
    LET it == EnumIter(cls)
        hits == {i \in 1..Len(it) : MorphCategory_mappingLntrf(cls)[it[i].m.name] = val}
        c == MorphCategory_category(cls)
    IN  IF hits # {}
        THEN Ret(it[CHOOSE i \in hits : \A j \in hits : j <= i].m.name)
        ELSE IF c.kind = "raise" THEN c
             ELSE Raise("MorphCategoryInvalidValueException")

(***************************************************************************)
(* Calls on the category tables.  cat is the call just made; catPrev is    *)
(* the most recent encoding call (lntrfValue or MorphCategories.lntrf)     *)
(* made before it, whose result a caller may feed to the decoder.          *)
(***************************************************************************)
CodeInputs ==
    {"0", "1", "2", "3", "4", "5", "6", "7", "8", "9", "10", "11",
     "M", "I", "N", "F", "R", "S", "P", "D", "A", "X", "", "m", "c1", "Z"}

KindCodeInputs == {"k", "g", "n", "c", "e", "d", "p", "", "x", "K", "kk", "c1", "1"}

EncodeOps == {"lntrfValue", "MorphCategories.lntrf"}

CatIdle == [cls |-> "-", op |-> "none", arg |-> "-", res |-> Ret("-")]

CatStep(call) ==
    /\ cat' = call
    /\ catPrev' = IF cat.op \in EncodeOps THEN cat ELSE catPrev
    /\ UNCHANGED <<gfVars, nfVars, afVars>>

CallLntrfValue ==
    \E cls \in Classes : \E n \in MemberNames(cls) :
        CatStep([cls |-> cls, op |-> "lntrfValue", arg |-> n,
                 res |-> MorphCategory_lntrfValue(cls, n)])

CallLntrf ==
    \E cls \in Classes : \E n \in MemberNames(cls) :
        CatStep([cls |-> cls, op |-> "lntrf", arg |-> n,
                 res |-> MorphCategory_lntrf(cls, n)])

CallFromLntrf ==
    \E cls \in Classes : \E val \in CodeInputs :
        CatStep([cls |-> cls, op |-> "fromLntrf", arg |-> val,
                 res |-> MorphCategory_fromLntrf(cls, val)])

CallKindLntrf ==
    \E k \in Kinds :
        CatStep([cls |-> "MorphCategories", op |-> "MorphCategories.lntrf", arg |-> k,
                 res |-> MorphCategories_lntrf(k)])

CallKindFromLntrf ==
    \E val \in KindCodeInputs :
        CatStep([cls |-> "MorphCategories", op |-> "MorphCategories.fromLntrf",
                 arg |-> val, res |-> MorphCategories_fromLntrf(val)])

(***************************************************************************)
(* Filters.py                                                              *)
(***************************************************************************)

\* The characters names are built from: two Latin letters differing in case,
\* a digit, and a Cyrillic letter (U+0434, whose upper case is U+0414).
Chars == {"a", "A", "1", "U+0434"}

\* str.isalpha, str.upper and unicodedata.name on those characters.
PyIsAlpha(c) == c \in {"a", "A", "U+0434", "U+0414"}

PyUpper(c) ==
    CASE c = "a" -> "A"
      [] c = "U+0434" -> "U+0414"
      [] OTHER -> c

UnicodeName(c) ==
    CASE c = "a" -> "LATIN SMALL LETTER A"
      [] c = "A" -> "LATIN CAPITAL LETTER A"
      [] c = "1" -> "DIGIT ONE"
      [] c = "U+0434" -> "CYRILLIC SMALL LETTER DE"
      [] c = "U+0414" -> "CYRILLIC CAPITAL LETTER DE"
      [] OTHER -> ""

\* Python's  sub in s  on strings.
PyContains(sub, s) ==
    \/ sub = ""
    \/ \E i \in 1..(Len(s) - Len(sub) + 1) : SubSeq(s, i, i + Len(sub) - 1) = sub

MaxNameLen == 2

NameStrings == UNION {[1..n -> Chars] : n \in 0..MaxNameLen}

LanguageCodes == {"cs", "en"}

\* A Name as the filters see it: o.language.code and str(o).
Names == [code : LanguageCodes, str : NameStrings]

alwaysFalse(o) == FALSE

\* alwaysTrue(*args, **kwargs)
alwaysTrue(o) == TRUE

\* NameLanguagesFilter.__call__
NameLanguagesFilter_call(self, o) == o.code \in self.languages

\* NameRegexFilter.__call__: bool(self._nameRegex.match(str(o))).  The pattern
\* is a literal (a sequence of characters without metacharacters), which
\* re.match matches exactly when str(o) starts with it.
NameRegexFilter_call(self, o) ==
    /\ Len(self.nameRegex) <= Len(o.str)
    /\ SubSeq(o.str, 1, Len(self.nameRegex)) = self.nameRegex

\* NameAlfaFilter.__init__
NameAlfaFilter_init(alfas, caseInsensitive) ==
    [alfas |-> IF caseInsensitive THEN {PyUpper(c) : c \in alfas} ELSE alfas,
     fn |-> "NameAlfaFilter"]

\* NameAlfaFilter.__call__
NameAlfaFilter_call(self, o) ==
    \A i \in 1..Len(o.str) : ~PyIsAlpha(o.str[i]) \/ PyUpper(o.str[i]) \in self.alfas

\* NameScriptFilter._inScript: the cached verdict for c, computing and caching
\* it on a miss.  Yields the verdict and the cache afterwards.
NameScriptFilter_inScript(script, cache, c) ==
    IF c \in DOMAIN cache
    THEN [cache |-> cache, r |-> cache[c]]
    ELSE LET res == ~PyIsAlpha(c) \/ PyContains(script, UnicodeName(c))
         IN  [cache |-> [x \in (DOMAIN cache) \cup {c} |->
                            IF x = c THEN res ELSE cache[x]],
              r |-> res]

\* NameScriptFilter.__call__: all(self._inScript(c) for c in str(o)); all()
\* stops at the first character that is not in the script.
RECURSIVE ScriptAll(_, _, _, _)
ScriptAll(script, cache, s, i) ==
    IF i > Len(s)
    THEN [cache |-> cache, r |-> TRUE]
    ELSE LET one == NameScriptFilter_inScript(script, cache, s[i])
         IN  IF one.r THEN ScriptAll(script, one.cache, s, i + 1)
             ELSE [cache |-> one.cache, r |-> FALSE]

NameScriptFilter_call(self, o) == ScriptAll(self.script, self.cache, o.str, 1)

\* An optional constructor argument: None, or a value.
None(default) == [v |-> default, isNone |-> TRUE]

Some(v) == [v |-> v, isNone |-> FALSE]

\* NamesFilter.__init__: each component is alwaysTrue when its argument is
\* None and the filter built from the argument otherwise (NameAlfaFilter with
\* its default caseInsensitive=True, NameScriptFilter with an empty cache).
NamesFilter_init(languages, nameRegex, alfas, script) ==
    [languages |-> IF languages.isNone
                   THEN [languages |-> {}, fn |-> "alwaysTrue"]
                   ELSE [languages |-> languages.v, fn |-> "NameLanguagesFilter"],
     nameRegex |-> IF nameRegex.isNone
                   THEN [nameRegex |-> <<>>, fn |-> "alwaysTrue"]
                   ELSE [nameRegex |-> nameRegex.v, fn |-> "NameRegexFilter"],
     alfaFilter |-> IF alfas.isNone
                    THEN [alfas |-> {}, fn |-> "alwaysTrue"]
                    ELSE NameAlfaFilter_init(alfas.v, TRUE),
     scriptFilter |-> IF script.isNone
                      THEN [fn |-> "alwaysTrue", script |-> "", cache |-> <<>>]
                      ELSE [fn |-> "NameScriptFilter", script |-> script.v, cache |-> <<>>]]

\* Calling one component of a NamesFilter.
CallLanguages(f, o) ==
    IF f.fn = "alwaysTrue" THEN alwaysTrue(o) ELSE NameLanguagesFilter_call(f, o)

CallNameRegex(f, o) ==
    IF f.fn = "alwaysTrue" THEN alwaysTrue(o) ELSE NameRegexFilter_call(f, o)

CallAlfaFilter(f, o) ==
    IF f.fn = "alwaysTrue" THEN alwaysTrue(o) ELSE NameAlfaFilter_call(f, o)

CallScriptFilter(f, o) ==
    IF f.fn = "alwaysTrue"
    THEN [cache |-> f.cache, r |-> alwaysTrue(o)]
    ELSE NameScriptFilter_call(f, o)

Ev(name, r) == [r |-> r, f |-> name]

NamesFilter_call_eager(self, o) ==
    LET a == CallLanguages(self.languages, o)
        b == CallNameRegex(self.nameRegex, o)
        c == CallAlfaFilter(self.alfaFilter, o)
        d == CallScriptFilter(self.scriptFilter, o)
    IN  [self |-> [self EXCEPT !.scriptFilter.cache = d.cache],
         r |-> a /\ b /\ c /\ d.r,
         trace |-> <<Ev("languages", a), Ev("nameRegex", b), Ev("alfaFilter", c),
                     Ev("scriptFilter", d.r)>>]

NamesFilter_call_regexFirst(self, o) ==
    LET a == CallLanguages(self.languages, o)
        b == CallNameRegex(self.nameRegex, o)
        c == CallAlfaFilter(self.alfaFilter, o)
        d == CallScriptFilter(self.scriptFilter, o)
    IN  IF ~b THEN [self |-> self, r |-> FALSE, trace |-> <<Ev("nameRegex", b)>>]
        ELSE IF ~a
        THEN [self |-> self, r |-> FALSE,
              trace |-> <<Ev("nameRegex", b), Ev("languages", a)>>]
        ELSE IF ~c
        THEN [self |-> self,
              r |-> FALSE,
              trace |-> <<Ev("nameRegex", b), Ev("languages", a), Ev("alfaFilter", c)>>]
        ELSE [self |-> [self EXCEPT !.scriptFilter.cache = d.cache],
              r |-> d.r,
              trace |-> <<Ev("nameRegex", b), Ev("languages", a), Ev("alfaFilter", c),
                          Ev("scriptFilter", d.r)>>]

\* NamesFilter.__call__:
\*   self._languages(o) and self._nameRegex(o) and self._alfaFilter(o) and self._scriptFilter(o)
\* Python's  and  evaluates left to right and yields the first false operand
\* without evaluating the rest.  Yields the verdict, the components evaluated
\* with their verdicts, and the filter afterwards (the script cache grows).
NamesFilter_call(self, o) ==
    LET a == CallLanguages(self.languages, o)
        b == CallNameRegex(self.nameRegex, o)
        c == CallAlfaFilter(self.alfaFilter, o)
        d == CallScriptFilter(self.scriptFilter, o)
    IN  IF ~a THEN [self |-> self, r |-> FALSE, trace |-> <<Ev("languages", a)>>]
        ELSE IF ~b
        THEN [self |-> self, r |-> FALSE,
              trace |-> <<Ev("languages", a), Ev("nameRegex", b)>>]
        ELSE IF ~c
        THEN [self |-> self,
              r |-> FALSE,
              trace |-> <<Ev("languages", a), Ev("nameRegex", b), Ev("alfaFilter", c)>>]
        ELSE [self |-> [self EXCEPT !.scriptFilter.cache = d.cache],
              r |-> d.r,
              trace |-> <<Ev("languages", a), Ev("nameRegex", b), Ev("alfaFilter", c),
                          Ev("scriptFilter", d.r)>>]

\* The exception classes: each class with its base class.  The category
\* exceptions derive from MorphCategoryException, which derives from
\* Errors.ExceptionMessageCode; none of them derives from NotInLanguage.
ExcBase(e) ==
    CASE e = "MorphCategoryInvalidException" -> "MorphCategoryException"
      [] e = "MorphCategoryInvalidValueException" -> "MorphCategoryException"
      [] e = "MorphCategoryException" -> "ExceptionMessageCode"
      [] OTHER -> "Exception"

RECURSIVE IsSubclass(_, _)
IsSubclass(e, base) ==
    \/ e = base
    \/ e # "Exception" /\ IsSubclass(ExcBase(e), base)

ExceptMatches_any(e) == TRUE

ExceptMatches_none(e) == FALSE

\* except namegenPack.Grammar.Grammar.NotInLanguage:
ExceptMatches(e) == IsSubclass(e, "NotInLanguage")

\* name.guessType(tokens) if self._guessType else None
GuessTypeEnabled(self) == self.guessType

\* The body of the try statement of NamesGrammarFilter.__call__: the outcome
\* of the statements and the collaborator calls made, in order.
TryBody(self, name) ==
    IF GuessTypeEnabled(self) /\ name.guess # "return"
    THEN [res |-> RaiseB(name.guess), calls |-> <<"guessType">>]
    ELSE LET pre == IF GuessTypeEnabled(self) THEN <<"guessType">> ELSE <<>>
         IN  IF name.analyse # "return"
             THEN [res |-> RaiseB(name.analyse), calls |-> pre \o <<"analyse">>]
             ELSE [res |-> RetB(TRUE), calls |-> pre \o <<"analyse">>]

\* NamesGrammarFilter.__call__: getTokens runs before the try statement; an
\* exception of the try body that the except clause matches becomes False,
\* any other propagates.
NamesGrammarFilter_call(self, name) ==
    IF name.lex # "return"
    THEN [res |-> RaiseB(name.lex), calls |-> <<"getTokens">>]
    ELSE LET body == TryBody(self, name)
         IN  [res |-> IF body.res.kind = "raise" /\ ExceptMatches(body.res.exc)
                      THEN RetB(FALSE)
                      ELSE body.res,
              calls |-> <<"getTokens">> \o body.calls]

\* NamesGrammarFilter.__init__
NamesGrammarFilter_init(guessType) == [guessType |-> guessType]

(***************************************************************************)
(* Calls on a NamesGrammarFilter.  The lexer, the type guess and the       *)
(* grammar are collaborators outside Filters.py: a name is modelled by     *)
(* what each of them does for it (returns, or raises the named exception). *)
(* gfResult[g] is the call of the filter built with guessType=g on the     *)
(* current name, once it has been made.                                    *)
(***************************************************************************)
CategoryErrors == {"MorphCategoryInvalidException", "MorphCategoryInvalidValueException"}

LexOutcomes == {"return", "UnlexableInput"}

CollabOutcomes == {"return", "NotInLanguage"} \cup CategoryErrors

GFNames == [guess : CollabOutcomes, analyse : CollabOutcomes, lex : LexOutcomes]

NotCalled == [res |-> RetB(FALSE), calls |-> <<>>, called |-> FALSE]

GFIdleName == [guess |-> "return", analyse |-> "return", lex |-> "return"]

GFCall ==
    /\ \E g \in BOOLEAN :
        LET out == NamesGrammarFilter_call(NamesGrammarFilter_init(g), gfName)
        IN  gfResult' = [gfResult EXCEPT ![g] =
                            [res |-> out.res, calls |-> out.calls, called |-> TRUE]]
    /\ UNCHANGED <<gfName, catVars, nfVars, afVars>>

GFNextName ==
    /\ \E n \in GFNames : gfName' = n
    /\ gfResult' = [g \in BOOLEAN |-> NotCalled]
    /\ UNCHANGED <<catVars, nfVars, afVars>>

(***************************************************************************)
(* Calls on a NamesFilter.  nf holds the constructor arguments and the     *)
(* filter object; nfCall is the last call.                                 *)
(***************************************************************************)
LanguagesInputs == {None({}), Some({"cs"})}

RegexInputs == {None(<<>>), Some(<<"a">>)}

AlfasInputs == {None({}), Some({"a"}), Some({"a", "U+0434"})}

ScriptInputs == {None(""), Some("LATIN"), Some("CYRILLIC")}

NFArgs == [languages : LanguagesInputs, nameRegex : RegexInputs,
           alfas : AlfasInputs, script : ScriptInputs]

NFConstruct(a) ==
    [self |-> NamesFilter_init(a.languages, a.nameRegex, a.alfas, a.script), args |-> a]

NoName == [code |-> "cs", str |-> <<>>]

NFIdleCall == [name |-> NoName, op |-> "none", r |-> FALSE, trace |-> <<>>]

NFCall ==
    /\ \E o \in Names :
        LET out == NamesFilter_call(nf.self, o)
        IN  /\ nf' = [nf EXCEPT !.self = out.self]
            /\ nfCall' = [name |-> o, op |-> "call", r |-> out.r, trace |-> out.trace]
    /\ UNCHANGED <<catVars, gfVars, afVars>>

(***************************************************************************)
(* Calls on a NameAlfaFilter built on its own, with either value of        *)
(* caseInsensitive.                                                        *)
(***************************************************************************)
AlfaArgChars == {"a", "A", "U+0434"}

AFConstruct(alfas, caseInsensitive) ==
    [self |-> NameAlfaFilter_init(alfas, caseInsensitive),
     args |-> [alfas |-> alfas, caseInsensitive |-> caseInsensitive]]

AFIdleCall == [name |-> NoName, op |-> "none", r |-> FALSE]

AFCall ==
    /\ \E o \in Names :
        afCall' = [name |-> o, op |-> "call", r |-> NameAlfaFilter_call(af.self, o)]
    /\ UNCHANGED <<af, catVars, gfVars, nfVars>>

(***************************************************************************)
(* Specifications, one per component; the variables of the other           *)
(* components stay at their idle values.                                   *)
(***************************************************************************)
CatIdleInit == cat = CatIdle /\ catPrev = CatIdle

GFIdleInit == gfName = GFIdleName /\ gfResult = [g \in BOOLEAN |-> NotCalled]

NFIdleInit ==
    /\ nf = NFConstruct([languages |-> None({}), nameRegex |-> None(<<>>),
                         alfas |-> None({}), script |-> None("")])
    /\ nfCall = NFIdleCall

AFIdleInit == af = AFConstruct({}, TRUE) /\ afCall = AFIdleCall

InitCat == CatIdleInit /\ GFIdleInit /\ NFIdleInit /\ AFIdleInit

NextCat ==
    \/ CallLntrfValue
    \/ CallLntrf
    \/ CallFromLntrf
    \/ CallKindLntrf
    \/ CallKindFromLntrf

SpecCat == InitCat /\ [][NextCat]_vars

InitGF ==
    /\ gfName \in GFNames
    /\ gfResult = [g \in BOOLEAN |-> NotCalled]
    /\ CatIdleInit /\ NFIdleInit /\ AFIdleInit

NextGF == GFCall \/ GFNextName

SpecGF == InitGF /\ [][NextGF]_vars

InitNF ==
    /\ \E a \in NFArgs : nf = NFConstruct(a)
    /\ nfCall = NFIdleCall
    /\ CatIdleInit /\ GFIdleInit /\ AFIdleInit

NextNF == NFCall

SpecNF == InitNF /\ [][NextNF]_vars

InitAF ==
    /\ \E alfas \in SUBSET AlfaArgChars : \E ci \in BOOLEAN : af = AFConstruct(alfas, ci)
    /\ afCall = AFIdleCall
    /\ CatIdleInit /\ GFIdleInit /\ NFIdleInit

NextAF == AFCall

SpecAF == InitAF /\ [][NextAF]_vars

(***************************************************************************)
(* Properties.                                                             *)
(***************************************************************************)
Range(seq) == {seq[i] : i \in 1..Len(seq)}

\* C1: decoding the code lntrfValue gave for a member of a value enumeration
\* gives that member back, and two distinct members of one enumeration never
\* get the same code.
LntrfValueRoundTrip ==
    /\ (/\ cat.op = "fromLntrf"
        /\ catPrev.op = "lntrfValue"
        /\ catPrev.cls = cat.cls
        /\ cat.arg = catPrev.res.val)
       => cat.res = Ret(catPrev.arg)
    /\ (/\ cat.op = "lntrfValue"
        /\ catPrev.op = "lntrfValue"
        /\ catPrev.cls = cat.cls
        /\ cat.arg # catPrev.arg)
       => /\ cat.res.kind = "return"
          /\ catPrev.res.kind = "return"
          /\ cat.res.val # catPrev.res.val

LntrfValueRoundTripWitness ==
    /\ catPrev.op = "lntrfValue" /\ catPrev.cls = "POS" /\ catPrev.arg = "NOUN"
    /\ catPrev.res = Ret("1")
    /\ cat.op = "fromLntrf" /\ cat.cls = "POS" /\ cat.arg = "1"
    /\ cat.res = Ret("NOUN")

\* C2: the compact notation of a member (MorphCategory.lntrf) is the code of
\* its kind immediately followed by the member's own code; Case.NOMINATIVE
\* gives "c1".
LntrfIsKindCodeThenValueCode ==
    cat.op = "lntrf"
    => /\ cat.res = Ret(MorphCategories_mappingLntrf[Subclass_category(cat.cls)]
                        \o MorphCategory_mappingLntrf(cat.cls)[cat.arg])
       /\ (cat.cls = "Case" /\ cat.arg = "NOMINATIVE") => cat.res = Ret("c1")

\* C3: fromLntrf of a value enumeration, given a code no member of that
\* enumeration has, raises MorphCategoryInvalidValueException and nothing else.
UnregisteredCodeRaisesInvalidValue ==
    (/\ cat.op = "fromLntrf"
     /\ \A n \in MemberNames(cat.cls) : MorphCategory_mappingLntrf(cat.cls)[n] # cat.arg)
    => cat.res = Raise("MorphCategoryInvalidValueException")

SevenCodes == {"k", "g", "n", "c", "e", "d", "p"}

\* C4: the kinds and the codes k, g, n, c, e, d, p correspond one to one:
\* every kind's code is one of the seven, decoding a kind's code gives the kind
\* back, each of the seven codes decodes to a kind, and any other string
\* raises MorphCategoryInvalidException.
KindCodeBijection ==
    /\ cat.op = "MorphCategories.lntrf"
       => cat.res.kind = "return" /\ cat.res.val \in SevenCodes
    /\ (/\ cat.op = "MorphCategories.lntrf"
        /\ catPrev.op = "MorphCategories.lntrf"
        /\ cat.arg # catPrev.arg)
       => cat.res.val # catPrev.res.val
    /\ (/\ cat.op = "MorphCategories.fromLntrf"
        /\ catPrev.op = "MorphCategories.lntrf"
        /\ cat.arg = catPrev.res.val)
       => cat.res = Ret(catPrev.arg)
    /\ (cat.op = "MorphCategories.fromLntrf" /\ cat.arg \in SevenCodes)
       => cat.res.kind = "return" /\ cat.res.val \in Kinds
    /\ (cat.op = "MorphCategories.fromLntrf" /\ cat.arg \notin SevenCodes)
       => cat.res = Raise("MorphCategoryInvalidException")

KindCodeBijectionWitness ==
    /\ catPrev.op = "MorphCategories.lntrf" /\ catPrev.arg = "NEGATION"
    /\ catPrev.res = Ret("e")
    /\ cat.op = "MorphCategories.fromLntrf" /\ cat.arg = "e"
    /\ cat.res = Ret("NEGATION")

\* C5: a NamesGrammarFilter call in which grammar.analyse raises NotInLanguage
\* returns False, and one in which grammar.analyse returns a result returns True.
GrammarFilterVerdict ==
    \A g \in BOOLEAN :
        (gfResult[g].called /\ "analyse" \in Range(gfResult[g].calls))
        => /\ gfName.analyse = "NotInLanguage" => gfResult[g].res = RetB(FALSE)
           /\ gfName.analyse = "return" => gfResult[g].res = RetB(TRUE)

GrammarFilterVerdictWitness ==
    /\ gfResult[TRUE].called
    /\ gfResult[TRUE].calls = <<"getTokens", "guessType", "analyse">>
    /\ gfName.analyse = "NotInLanguage"
    /\ gfResult[TRUE].res = RetB(FALSE)

\* C6: for a name whose tokens grammar.analyse accepts, the filter with
\* guessType enabled returns True just as the filter with guessType disabled
\* does, whatever name.guessType does, and it still calls analyse.
GuessNeverRejects ==
    (/\ gfName.lex = "return"
     /\ gfName.analyse = "return"
     /\ gfResult[TRUE].called
     /\ gfResult[FALSE].called)
    => /\ gfResult[FALSE].res = RetB(TRUE)
       /\ gfResult[TRUE].res = gfResult[FALSE].res
       /\ "analyse" \in Range(gfResult[TRUE].calls)

SubFilterOrder == <<"languages", "nameRegex", "alfaFilter", "scriptFilter">>

SubFilterAccepts(f, o) ==
    CASE f = "languages" -> CallLanguages(nf.self.languages, o)
      [] f = "nameRegex" -> CallNameRegex(nf.self.nameRegex, o)
      [] f = "alfaFilter" -> CallAlfaFilter(nf.self.alfaFilter, o)
      [] f = "scriptFilter" -> CallScriptFilter(nf.self.scriptFilter, o).r

\* C7: NamesFilter accepts exactly when all four sub-filters accept; it
\* evaluates them in the order language, regex, alpha set, script, and
\* evaluates none after the first one that rejects.
NamesFilterShortCircuit ==
    nfCall.op = "call"
    => LET t == nfCall.trace
       IN  /\ Len(t) \in 1..4
           /\ \A i \in 1..Len(t) :
                /\ t[i].f = SubFilterOrder[i]
                /\ t[i].r = SubFilterAccepts(t[i].f, nfCall.name)
           /\ \A i \in 1..(Len(t) - 1) : t[i].r
           /\ Len(t) < 4 => ~t[Len(t)].r
           /\ nfCall.r = \A f \in Range(SubFilterOrder) : SubFilterAccepts(f, nfCall.name)

NamesFilterShortCircuitWitness ==
    /\ nfCall.op = "call"
    /\ Len(nfCall.trace) = 2
    /\ nfCall.trace[1].r
    /\ ~nfCall.trace[2].r
    /\ ~nfCall.r
    /\ ~SubFilterAccepts("scriptFilter", nfCall.name)

\* C8: a component whose constructor argument is None accepts every name, so
\* the verdict is the conjunction of the components that were configured, and
\* a NamesFilter built with four None arguments accepts every name.
NoneComponentAccepts ==
    nfCall.op = "call"
    => LET a == nf.args
           o == nfCall.name
           t == nfCall.trace
       IN  /\ \A i \in 1..Len(t) :
                (\/ t[i].f = "languages" /\ a.languages.isNone
                 \/ t[i].f = "nameRegex" /\ a.nameRegex.isNone
                 \/ t[i].f = "alfaFilter" /\ a.alfas.isNone
                 \/ t[i].f = "scriptFilter" /\ a.script.isNone)
                => t[i].r
           /\ nfCall.r =
                (/\ a.languages.isNone
                    \/ NameLanguagesFilter_call([languages |-> a.languages.v], o)
                 /\ a.nameRegex.isNone
                    \/ NameRegexFilter_call([nameRegex |-> a.nameRegex.v], o)
                 /\ a.alfas.isNone
                    \/ NameAlfaFilter_call(NameAlfaFilter_init(a.alfas.v, TRUE), o)
                 /\ a.script.isNone
                    \/ NameScriptFilter_call([script |-> a.script.v, cache |-> <<>>], o).r)
           /\ (a.languages.isNone /\ a.nameRegex.isNone /\ a.alfas.isNone /\ a.script.isNone)
              => nfCall.r

NoneComponentAcceptsWitness ==
    /\ nfCall.op = "call"
    /\ nf.args.languages.isNone /\ nf.args.nameRegex.isNone
    /\ nf.args.alfas.isNone /\ nf.args.script.isNone
    /\ nfCall.name = [code |-> "en", str |-> <<"U+0434", "1">>]
    /\ nfCall.r

\* C9: an error other than NotInLanguage is never turned into a verdict: the
\* lexer's UnlexableInput, and a category-code error of guessType or analyse,
\* leave the filter as the very error that was raised.
OtherErrorsPropagate ==
    \A g \in BOOLEAN :
        gfResult[g].called
        => /\ gfName.lex = "UnlexableInput" => gfResult[g].res = RaiseB("UnlexableInput")
           /\ ("guessType" \in Range(gfResult[g].calls) /\ gfName.guess \in CategoryErrors)
              => gfResult[g].res = RaiseB(gfName.guess)
           /\ ("analyse" \in Range(gfResult[g].calls) /\ gfName.analyse \in CategoryErrors)
              => gfResult[g].res = RaiseB(gfName.analyse)

OtherErrorsPropagateWitness ==
    /\ gfResult[TRUE].called
    /\ gfName.lex = "return"
    /\ gfName.guess = "return"
    /\ gfName.analyse = "MorphCategoryInvalidValueException"
    /\ gfResult[TRUE].calls = <<"getTokens", "guessType", "analyse">>
    /\ gfResult[TRUE].res = RaiseB("MorphCategoryInvalidValueException")

\* C10: NameAlfaFilter accepts exactly when every alphabetic character of the
\* name is allowed, where with caseInsensitive=True a character is allowed if
\* it equals some character of alfas up to case, and with caseInsensitive=False
\* if that exact character is in alfas.
AlfaFilterRespectsCaseFlag ==
    afCall.op = "call"
    => LET s == afCall.name.str
           Allowed(c) == IF af.args.caseInsensitive
                         THEN \E x \in af.args.alfas : PyUpper(x) = PyUpper(c)
                         ELSE c \in af.args.alfas
       IN  afCall.r = \A i \in 1..Len(s) : ~PyIsAlpha(s[i]) \/ Allowed(s[i])

====
